---- MODULE Spec2Model ----
(***************************************************************************)
(* A model of the LLM inference benchmark harness:                         *)
(*   - benchmarks/run_benchmark.py  BenchmarkRunner.run   (Spec)           *)
(*   - workloads/synthetic.py       SyntheticWorkload     (SpecGen)        *)
(*   - metrics/analyze.py           analyze               (SpecReduce)     *)
(* Each specification drives one component; the variables of the other     *)
(* components stay at their initial values.                                 *)
(***************************************************************************)
EXTENDS Integers, Sequences, FiniteSets, TLC

VARIABLES
    \* ---- BenchmarkRunner.run ----
    workload,     \* the requests workload.generate() yields, in order
    concurrency,  \* self.concurrency
    pc,           \* position of the main thread inside run()
    server,       \* lifecycle of self.server
    submitted,    \* len(futures): requests handed to executor.submit so far
    futures,      \* the request_id behind each entry of `futures`, in order
    st,           \* per request: position of its _handle_request call
    called,       \* requests for which self.server.generate was invoked
    resp,         \* per request: response["latency_s"] once generate returned
    numThreads,   \* worker threads the executor has spawned
    lock,         \* self.lock: 0 when free, else the request holding it
    results,      \* the shared list `results`
    persisted,    \* the lines written to output_path
    \* ---- SyntheticWorkload ----
    rng,          \* the state of the module-level generator of `random`
    now,          \* time.time()
    inst,         \* the SyntheticWorkload instances and their generators
    \* ---- analyze ----
    trace,        \* the records load_results returns
    summary,      \* what analyze returns
    rpc,          \* position inside analyze
    \* ---- _handle_request and VLLMServer.generate, with their clock ----
    clk,          \* time.time(), in whole time units
    handling,     \* per request: position and time stamps of its handling
    timedResults  \* the shared list `results`, with latency_s and wall_time_s

runVars == <<workload, concurrency, pc, server, submitted, futures, st, called,
             resp, numThreads, lock, results, persisted>>
genVars == <<rng, now, inst>>
redVars == <<trace, summary, rpc>>
timeVars == <<clk, handling, timedResults>>
vars == <<runVars, genVars, redVars, timeVars>>

\* What the actions of one component leave alone.
runOther == <<genVars, redVars, timeVars>>
genOther == <<runVars, redVars, timeVars>>
redOther == <<runVars, genVars, timeVars>>
timeOther == <<runVars, genVars, redVars>>

Range(s) == {s[i] : i \in DOMAIN s}

Max2(a, b) == IF a >= b THEN a ELSE b

(***************************************************************************)
(*                       BenchmarkRunner.run                               *)
(***************************************************************************)

\* Bounds of the dispatcher model.
MaxRequests == 3
MaxConcurrency == 2

\* latency_s values a backend response may carry.
Latencies == {1, 2}

\* LLMRequest(request_id, prompt_tokens, max_new_tokens, arrival_time).
LLMRequest(id, p, m, t) ==
    [request_id |-> id, prompt_tokens |-> p, max_new_tokens |-> m,
     arrival_time |-> t]

\* The streams the dispatcher is run on: ids contiguous from 0, one arrival
\* second per PerSec requests, token counts that differ between requests.
Workloads ==
    { [i \in 1..n |->
          LLMRequest(i - 1, v + i, 2 * v + i, 100 + ((i - 1) \div perSec))]
      : n \in 0..MaxRequests, v \in {1, 2}, perSec \in {1, 2} }

\* The dict _handle_request builds (wall_time_s is not modelled here).
Record(req, latency) ==
    [request_id |-> req.request_id,
     arrival_time |-> req.arrival_time,
     prompt_tokens |-> req.prompt_tokens,
     max_new_tokens |-> req.max_new_tokens,
     latency_s |-> latency]

\* Mutant: results = [record] instead of results.append(record).
OverwriteRecord(res, rec) == <<rec>>

\* results.append(record)
AppendRecord(res, rec) == Append(res, rec)

\* Requests whose _handle_request is running on a worker thread.
Busy == {i \in 1..submitted : st[i] \in {"calling", "responded", "appending"}}

\* Requests inside self.server.generate(...).
InFlight == {i \in 1..submitted : st[i] = "calling"}

\* Work items waiting in the executor's queue.
Queued == {i \in 1..submitted : st[i] = "queued"}

\* Mutant: a thread per submitted request, without the max_workers cap.
AdjustThreadCountUnbounded(n, idle, maxWorkers) ==
    IF idle = 0 THEN n + 1 ELSE n

\* ThreadPoolExecutor._adjust_thread_count: a thread is added on submit only
\* when no worker is idle and fewer than max_workers exist.
AdjustThreadCount(n, idle, maxWorkers) ==
    IF idle = 0 /\ n < maxWorkers THEN n + 1 ELSE n

\* Mutant: the run waits for the first future to finish only.
FirstFinished == submitted = 0 \/ \E i \in 1..submitted : st[i] \in {"ok", "exc"}

\* Mutant: the run waits until every future has a result, so a future that
\* holds an exception is waited for without end.
AllSucceeded == \A i \in 1..submitted : st[i] = "ok"

\* Mutant: the run waits for the queue to drain, not for the handlers to end.
AllStarted == \A i \in 1..submitted : st[i] # "queued"

\* Every future has finished: the as_completed loop is exhausted and
\* executor.shutdown(wait=True) has joined the workers.
AllFinished == \A i \in 1..submitted : st[i] \in {"ok", "exc"}

\* Mutant: a failure also discards the work items still queued.
AfterFailureCancelsQueued(s, i) ==
    [j \in DOMAIN s |-> IF j = i \/ s[j] = "queued" THEN "exc" ELSE s[j]]

\* A raising self.server.generate ends its own _handle_request only: the
\* exception is stored in that request's future.
AfterFailure(s, i) == [s EXCEPT ![i] = "exc"]

\* The failure entries run() keeps: none. The as_completed loop body is
\* `pass`; the exception stored in a future is never read or counted.
RecordedFailures == {}

InitRun ==
    /\ workload \in Workloads
    /\ concurrency \in 1..MaxConcurrency
    /\ pc = "start"
    /\ server = "init"
    /\ submitted = 0
    /\ futures = <<>>
    /\ st = [i \in 1..Len(workload) |-> "unsubmitted"]
    /\ called = {}
    /\ resp = [i \in 1..Len(workload) |-> 0]
    /\ numThreads = 0
    /\ lock = 0
    /\ results = <<>>
    /\ persisted = <<>>

IdleRun ==
    /\ workload = <<>>
    /\ concurrency = 1
    /\ pc = "idle"
    /\ server = "init"
    /\ submitted = 0
    /\ futures = <<>>
    /\ st = <<>>
    /\ called = {}
    /\ resp = <<>>
    /\ numThreads = 0
    /\ lock = 0
    /\ results = <<>>
    /\ persisted = <<>>

\* self.server.start() returns.
ServerStart ==
    /\ pc = "start"
    /\ server' = "started"
    /\ pc' = "submit"
    /\ UNCHANGED <<workload, concurrency, futures, called, submitted, st, resp, numThreads,
                   lock, results, persisted>>
    /\ UNCHANGED runOther

\* self.server.start() raises RuntimeError (_wait_until_ready timed out).
ServerStartFails ==
    /\ pc = "start"
    /\ server' = "failed"
    /\ pc' = "aborted"
    /\ UNCHANGED <<workload, concurrency, futures, called, submitted, st, resp, numThreads,
                   lock, results, persisted>>
    /\ UNCHANGED runOther

\* A loop that hands every request to the executor twice.
SubmitFutureTwice(futs, req) == Append(Append(futs, req.request_id), req.request_id)

\* futures.append(executor.submit(_handle_request, req))
SubmitFuture(futs, req) == Append(futs, req.request_id)

\* futures.append(executor.submit(_handle_request, req)) for the next req.
Submit ==
    /\ pc = "submit"
    /\ submitted < Len(workload)
    /\ submitted' = submitted + 1
    /\ st' = [st EXCEPT ![submitted + 1] = "queued"]
    /\ numThreads' = AdjustThreadCount(numThreads,
                                       numThreads - Cardinality(Busy),
                                       concurrency)
    /\ futures' = SubmitFuture(futures, workload[submitted + 1])
    /\ UNCHANGED <<workload, concurrency, called, pc, server, resp, lock, results,
                   persisted>>
    /\ UNCHANGED runOther

\* workload.generate() is exhausted: the for loop ends.
SubmitDone ==
    /\ pc = "submit"
    /\ submitted = Len(workload)
    /\ pc' = "wait"
    /\ UNCHANGED <<workload, concurrency, futures, called, server, submitted, st, resp,
                   numThreads, lock, results, persisted>>
    /\ UNCHANGED runOther

\* An idle worker takes the oldest queued work item and runs _handle_request
\* up to and into self.server.generate(...).
WorkerTake(i) ==
    /\ i \in Queued
    /\ \A j \in Queued : i <= j
    /\ Cardinality(Busy) < numThreads
    /\ st' = [st EXCEPT ![i] = "calling"]
    /\ called' = called \cup {i}
    /\ UNCHANGED <<workload, concurrency, futures, pc, server, submitted, resp,
                   numThreads, lock, results, persisted>>
    /\ UNCHANGED runOther

\* self.server.generate returns a response; the record is built.
BackendReturn(i, lat) ==
    /\ i \in InFlight
    /\ st' = [st EXCEPT ![i] = "responded"]
    /\ resp' = [resp EXCEPT ![i] = lat]
    /\ UNCHANGED <<workload, concurrency, futures, called, pc, server, submitted, numThreads,
                   lock, results, persisted>>
    /\ UNCHANGED runOther

\* self.server.generate raises; the exception ends _handle_request and is
\* stored in the future.
BackendFail(i) ==
    /\ i \in InFlight
    /\ st' = AfterFailure(st, i)
    /\ UNCHANGED <<workload, concurrency, futures, called, pc, server, submitted, resp,
                   numThreads, lock, results, persisted>>
    /\ UNCHANGED runOther

\* with self.lock: (acquire)
AcquireLock(i) ==
    /\ i \in 1..submitted
    /\ st[i] = "responded"
    /\ lock = 0
    /\ lock' = i
    /\ st' = [st EXCEPT ![i] = "appending"]
    /\ UNCHANGED <<workload, concurrency, futures, called, pc, server, submitted, resp,
                   numThreads, results, persisted>>
    /\ UNCHANGED runOther

\* results.append(record), then the lock is released and the future finishes.
AppendRelease(i) ==
    /\ i \in 1..submitted
    /\ st[i] = "appending"
    /\ lock = i
    /\ results' = AppendRecord(results, Record(workload[i], resp[i]))
    /\ lock' = 0
    /\ st' = [st EXCEPT ![i] = "ok"]
    /\ UNCHANGED <<workload, concurrency, futures, called, pc, server, submitted, resp,
                   numThreads, persisted>>
    /\ UNCHANGED runOther

\* for f in as_completed(futures): pass -- and the with block's exit.
WaitDone ==
    /\ pc = "wait"
    /\ AllFinished
    /\ pc' = "joined"
    /\ UNCHANGED <<workload, concurrency, futures, called, server, submitted, st, resp,
                   numThreads, lock, results, persisted>>
    /\ UNCHANGED runOther

\* self.server.stop()
ServerStop ==
    /\ pc = "joined"
    /\ server' = "stopped"
    /\ pc' = "stopped"
    /\ UNCHANGED <<workload, concurrency, futures, called, submitted, st, resp, numThreads,
                   lock, results, persisted>>
    /\ UNCHANGED runOther

\* The results are written to output_path, one JSON line per record.
Save ==
    /\ pc = "stopped"
    /\ persisted' = results
    /\ pc' = "saved"
    /\ UNCHANGED <<workload, concurrency, futures, called, server, submitted, st, resp,
                   numThreads, lock, results>>
    /\ UNCHANGED runOther

\* print("Benchmark complete ...")
PrintComplete ==
    /\ pc = "saved"
    /\ pc' = "done"
    /\ UNCHANGED <<workload, concurrency, futures, called, server, submitted, st, resp,
                   numThreads, lock, results, persisted>>
    /\ UNCHANGED runOther

(***************************************************************************)
(*                         SyntheticWorkload                               *)
(***************************************************************************)

\* Bounds of the generator model.
MaxDuration == 2
MaxNow == 1
\* Size of the state space of the modelled pseudo-random generator.
RngMod == 8

Seeds == {1, 2}
Instances == {1, 2}

\* The constructor's arguments. burst_prob is in percent.
Config(q, d, pr, mr, bp, bm, sd) ==
    [qps |-> q, duration_s |-> d, prompt_len_range |-> pr,
     max_new_tokens_range |-> mr, burst_prob |-> bp, burst_multiplier |-> bm,
     seed |-> sd]

ValidConfigs ==
    { Config(1, d, <<1, 2>>, <<1, 2>>, 0, 2, sd) :
        d \in 1..MaxDuration, sd \in Seeds }
    \cup { Config(1, 1, <<1, 2>>, <<1, 2>>, 50, 2, 1),
           Config(1, 0, <<1, 2>>, <<1, 2>>, 0, 2, 1) }

\* Configurations the design rules out: qps <= 0, a range with min > max.
InvalidConfigs ==
    { Config(0, 1, <<1, 2>>, <<1, 2>>, 0, 2, 1),
      Config(-1, 1, <<1, 2>>, <<1, 2>>, 0, 2, 1),
      Config(1, 1, <<2, 1>>, <<1, 2>>, 0, 2, 1),
      Config(1, 1, <<1, 2>>, <<2, 1>>, 0, 2, 1),
      Config(-1, 1, <<1, 2>>, <<1, 2>>, 100, -2, 1) }

Configs == ValidConfigs \cup InvalidConfigs

IsInvalid(cfg) ==
    \/ cfg.qps <= 0
    \/ cfg.prompt_len_range[1] > cfg.prompt_len_range[2]
    \/ cfg.max_new_tokens_range[1] > cfg.max_new_tokens_range[2]

\* ---- the module-level generator of `random` ----
\* Its state is the word s and the deviate gauss() has cached (<<>>: None).

\* random.seed(seed): the state is a function of the seed; the cache is reset.
RandomSeed(seed) == [s |-> seed % RngMod, g |-> <<>>]

\* One step of the underlying generator.
RngStep(s) == (5 * s + 3) % RngMod

\* random.random(): the next word u, standing for u / RngMod in [0, 1).
RandomRandom(r) == [u |-> RngStep(r.s), rng |-> [r EXCEPT !.s = RngStep(r.s)]]

\* The deviate, in standard deviations, a uniform word stands for.
Deviate(u) == (u % 3) - 1

\* Integer square roots, rounded down and up.
RECURSIVE FloorSqrtFrom(_, _)
FloorSqrtFrom(n, k) == IF (k + 1) * (k + 1) > n THEN k ELSE FloorSqrtFrom(n, k + 1)
FloorSqrt(n) == FloorSqrtFrom(n, 0)
CeilSqrt(n) == IF FloorSqrt(n) * FloorSqrt(n) = n THEN FloorSqrt(n) ELSE FloorSqrt(n) + 1

\* max(0, int(random.gauss(mu, math.sqrt(mu)))) for mu >= 0: a pair of
\* uniform draws yields two deviates, the second is cached in gauss_next.
\* int() truncates mu + z * sqrt(mu) toward zero.
GaussCount(mu, z) ==
    Max2(0, IF z > 0 THEN mu + FloorSqrt(mu)
            ELSE IF z < 0 THEN mu - CeilSqrt(mu)
            ELSE mu)

RandomGauss(r) ==
    IF r.g # <<>>
    THEN [z |-> r.g[1], rng |-> [r EXCEPT !.g = <<>>]]
    ELSE LET d1 == RandomRandom(r)
             d2 == RandomRandom(d1.rng)
         IN  [z |-> Deviate(d1.u),
              rng |-> [s |-> d2.rng.s, g |-> <<Deviate(d2.u)>>]]

\* random.randint(lo, hi), for lo <= hi.
RandomRandint(r, lo, hi) ==
    LET d == RandomRandom(r)
    IN  [v |-> lo + (d.u % (hi - lo + 1)), rng |-> d.rng]

\* SyntheticWorkload._requests_in_second: [ok, n, rng]; ok is FALSE when
\* math.sqrt raises ValueError on a negative rate.
RequestsInSecond(cfg, r) ==
    LET d == RandomRandom(r)
        effective_qps == IF d.u * 100 < cfg.burst_prob * RngMod
                         THEN cfg.qps * cfg.burst_multiplier
                         ELSE cfg.qps
    IN  IF effective_qps < 0
        THEN [ok |-> FALSE, n |-> 0, rng |-> d.rng]
        ELSE LET gs == RandomGauss(d.rng)
             IN  [ok |-> TRUE, n |-> GaussCount(effective_qps, gs.z),
                  rng |-> gs.rng]

\* The generator of generate(), resumed until it yields, ends or raises.
\* sec is the second being iterated (-1 before the first), left the requests
\* of that second still to be yielded.
RECURSIVE Resume(_, _, _, _)
Resume(cfg, sec, left, r) ==
    IF left > 0
    THEN IF \/ cfg.prompt_len_range[1] > cfg.prompt_len_range[2]
            \/ cfg.max_new_tokens_range[1] > cfg.max_new_tokens_range[2]
         THEN [kind |-> "raise", sec |-> sec, left |-> left, rng |-> r,
               p |-> 0, m |-> 0]
         ELSE LET dp == RandomRandint(r, cfg.prompt_len_range[1],
                                      cfg.prompt_len_range[2])
                  dm == RandomRandint(dp.rng, cfg.max_new_tokens_range[1],
                                      cfg.max_new_tokens_range[2])
              IN  [kind |-> "yield", sec |-> sec, left |-> left - 1,
                   rng |-> dm.rng, p |-> dp.v, m |-> dm.v]
    ELSE IF sec + 1 >= cfg.duration_s
         THEN [kind |-> "stop", sec |-> sec, left |-> 0, rng |-> r,
               p |-> 0, m |-> 0]
         ELSE LET q == RequestsInSecond(cfg, r)
              IN  IF ~q.ok
                  THEN [kind |-> "raise", sec |-> sec + 1, left |-> 0,
                        rng |-> q.rng, p |-> 0, m |-> 0]
                  ELSE Resume(cfg, sec + 1, q.n, q.rng)

NoConfig == Config(0, 0, <<0, 0>>, <<0, 0>>, 0, 0, 0)

NoInstance ==
    [phase |-> "none", cfg |-> NoConfig, sec |-> -1, left |-> 0,
     request_id |-> 0, start_time |-> 0, out |-> <<>>]

InitGen ==
    /\ rng = RandomSeed(0)
    /\ now = 0
    /\ inst = [k \in Instances |-> NoInstance]

\* SyntheticWorkload(...): the fields are stored and random.seed(seed) is
\* called on the module-level generator. Nothing is validated.
Construct(k, cfg) ==
    /\ inst[k].phase = "none"
    /\ inst' = [inst EXCEPT ![k] = [NoInstance EXCEPT !.phase = "new",
                                                      !.cfg = cfg]]
    /\ rng' = RandomSeed(cfg.seed)
    /\ UNCHANGED now
    /\ UNCHANGED genOther

\* A generator whose request_id is never advanced.
NextRequestIdStuck(me) == 0

\* request_id = 0 before the loop, request_id += 1 after every yield.
NextRequestId(me) == IF me.phase = "new" THEN 0 ELSE me.request_id + 1

\* An arrival time read from the clock at the moment of the yield.
ArrivalTimeFromClock(start_time, sec, clock) == clock + sec

\* arrival_time = start_time + sec, start_time being read once.
ArrivalTime(start_time, sec, clock) == start_time + sec

\* next() on the generator generate() returned: the first call sets
\* request_id = 0 and start_time = time.time(); every call runs to the next
\* yield, to the end of the loop, or to an exception.
GenNext(k) ==
    /\ inst[k].phase \in {"new", "running"}
    /\ LET me == inst[k]
           start_time == IF me.phase = "new" THEN now ELSE me.start_time
           request_id == NextRequestId(me)
           res == Resume(me.cfg, me.sec, me.left, rng)
       IN  /\ rng' = res.rng
           /\ inst' = [inst EXCEPT ![k] =
                 [me EXCEPT
                    !.phase = CASE res.kind = "yield" -> "running"
                                [] res.kind = "stop" -> "exhausted"
                                [] OTHER -> "raised",
                    !.sec = res.sec,
                    !.left = res.left,
                    !.start_time = start_time,
                    !.request_id = request_id,
                    !.out = IF res.kind = "yield"
                            THEN Append(me.out,
                                        LLMRequest(request_id, res.p, res.m,
                                                   ArrivalTime(start_time,
                                                               res.sec, now)))
                            ELSE me.out]]
    /\ UNCHANGED now
    /\ UNCHANGED genOther

\* Wall-clock time passes.
Tick ==
    /\ now < MaxNow
    /\ now' = now + 1
    /\ UNCHANGED <<rng, inst>>
    /\ UNCHANGED genOther

\* The sequence generate() yields when nothing else touches the generator
\* between random.seed(cfg.seed) and the end of the generation.
RECURSIVE AloneFrom(_, _, _, _, _, _)
AloneFrom(cfg, sec, left, r, id, t0) ==
    LET res == Resume(cfg, sec, left, r)
    IN  IF res.kind = "yield"
        THEN <<LLMRequest(id, res.p, res.m, t0 + res.sec)>>
             \o AloneFrom(cfg, res.sec, res.left, res.rng, id + 1, t0)
        ELSE <<>>
Alone(cfg, t0) == AloneFrom(cfg, -1, 0, RandomSeed(cfg.seed), 0, t0)


(***************************************************************************)
(*                              analyze                                    *)
(* Times are integers in microseconds. A rate is the fraction num / den    *)
(* per second. A percentile is kept times 100, in microseconds.            *)
(***************************************************************************)

\* Bound of the reducer model.
MaxTraceLen == 2

MicrosPerSec == 1000 * 1000

\* The floor 1e-6 of compute_throughput, in microseconds.
Epsilon == 1

\* Significand width of np.float32.
MantissaBits == 24

ArrivalVals == {100 * MicrosPerSec, 101 * MicrosPerSec}
\* 16777217 us needs 25 significant bits.
LatencyVals == {0, 50000, 300000, 16777217}
NewTokenVals == {50, 64}

\* The fields of a trace line that analyze reads.
TraceRecords ==
    [arrival_time : ArrivalVals, latency_s : LatencyVals,
     max_new_tokens : NewTokenVals]

Traces == UNION { [1..n -> TraceRecords] : n \in 0..MaxTraceLen }

Min2(a, b) == IF a <= b THEN a ELSE b

RECURSIVE Pow2(_)
Pow2(k) == IF k = 0 THEN 1 ELSE 2 * Pow2(k - 1)

\* np.array(..., dtype=np.float32) on one value: the nearest number with a
\* MantissaBits-bit significand, ties to even. The value is an integer
\* count of microseconds, so counts below 2^MantissaBits are kept.
RECURSIVE ShiftFor(_, _)
ShiftFor(n, k) == IF n \div Pow2(k) < Pow2(MantissaBits) THEN k ELSE ShiftFor(n, k + 1)
Float32(n) ==
    LET k == ShiftFor(n, 0)
        unit == Pow2(k)
        q == n \div unit
        r == n % unit
    IN  IF 2 * r > unit \/ (2 * r = unit /\ q % 2 = 1)
        THEN (q + 1) * unit
        ELSE q * unit

\* Mutant: the array is used in file order.
Unsorted(seq) == seq

\* The latencies in ascending order (np.percentile sorts a copy).
RECURSIVE Insert(_, _)
Insert(x, sorted) ==
    IF sorted = <<>> THEN <<x>>
    ELSE IF x <= Head(sorted) THEN <<x>> \o sorted
    ELSE <<Head(sorted)>> \o Insert(x, Tail(sorted))
RECURSIVE Sort(_)
Sort(seq) == IF seq = <<>> THEN <<>> ELSE Insert(Head(seq), Sort(Tail(seq)))

\* np.percentile(a, q) of a non-empty array, linear interpolation between
\* the order statistics around the index (n - 1) * q / 100; times 100.
Percentile(latencies, q) ==
    LET a == Sort(latencies)
        n == Len(a)
        h100 == (n - 1) * q
        lo == h100 \div 100
        hi == Min2(lo + 1, n - 1)
    IN  a[lo + 1] * 100 + (a[hi + 1] - a[lo + 1]) * (h100 - 100 * lo)

Defined(x) == [nan |-> FALSE, v100 |-> x]
NaN == [nan |-> TRUE, v100 |-> 0]

\* What np.percentile does with an empty array depends on the NumPy build:
\* it returns nan (with a RuntimeWarning) or raises IndexError.
EmptyPercentileOutcomes == {"nan", "raise"}

\* latency_percentiles(latencies)
latency_percentiles(latencies) ==
    IF latencies = <<>>
    THEN [p50 |-> NaN, p95 |-> NaN, p99 |-> NaN]
    ELSE [p50 |-> Defined(Percentile(latencies, 50)),
          p95 |-> Defined(Percentile(latencies, 95)),
          p99 |-> Defined(Percentile(latencies, 99))]

RECURSIVE SumTokens(_)
SumTokens(records) ==
    IF records = <<>> THEN 0
    ELSE Head(records).max_new_tokens + SumTokens(Tail(records))

SetMin(S) == CHOOSE x \in S : \A y \in S : x <= y
SetMax(S) == CHOOSE x \in S : \A y \in S : x >= y

\* Mutant: end_time taken over the arrival times alone.
EndTimeNoLatency(records) == SetMax({r.arrival_time : r \in Range(records)})

\* end_time of compute_throughput
EndTime(records) == SetMax({r.arrival_time + r.latency_s : r \in Range(records)})

\* Mutant: the span without the 1e-6 floor.
DurationNoFloor(records) ==
    EndTime(records) - SetMin({r.arrival_time : r \in Range(records)})

\* duration of compute_throughput, for a non-empty trace
Duration(records) ==
    Max2(Epsilon,
         EndTime(records) - SetMin({r.arrival_time : r \in Range(records)}))

\* compute_throughput(records): the empty mapping for an empty trace.
compute_throughput(records) ==
    IF Len(records) = 0
    THEN [x \in {} |-> 0]
    ELSE [requests_per_sec |->
              [num |-> Len(records) * MicrosPerSec, den |-> Duration(records)],
          tokens_per_sec |->
              [num |-> SumTokens(records) * MicrosPerSec,
               den |-> Duration(records)],
          duration_s |-> Duration(records)]

\* The summary analyze builds.
AnalyzeSummary(records) ==
    latency_percentiles([i \in 1..Len(records) |-> Float32(records[i].latency_s)])
      @@ compute_throughput(records)
      @@ [num_requests |-> Len(records)]

NoSummary == [pending |-> TRUE]

InitReduce ==
    /\ trace \in Traces
    /\ summary = NoSummary
    /\ rpc = "loaded"

IdleReduce ==
    /\ trace = <<>>
    /\ summary = NoSummary
    /\ rpc = "idle"

\* analyze(path), after load_results: returns the summary, or np.percentile
\* raises on the empty latency array.
Analyze ==
    /\ rpc = "loaded"
    /\ \E o \in IF trace = <<>> THEN EmptyPercentileOutcomes ELSE {"value"} :
          IF o = "raise"
          THEN /\ rpc' = "raised"
               /\ summary' = NoSummary
          ELSE /\ rpc' = "returned"
               /\ summary' = AnalyzeSummary(trace)
    /\ UNCHANGED trace
    /\ UNCHANGED redOther


(***************************************************************************)
(*                          Specifications                                 *)
(***************************************************************************)

IdleGen ==
    /\ rng = RandomSeed(0)
    /\ now = 0
    /\ inst = [k \in Instances |-> NoInstance]

\* BenchmarkRunner.run on a workload.
(***************************************************************************)
(*            _handle_request and VLLMServer.generate, timed               *)
(* The executor block of run() once more, with the clock the handlers read *)
(* and the moment each request was handed to executor.submit. The lock is  *)
(* left out: the record is appended in the step that reads `end`.          *)
(***************************************************************************)

\* Bounds of the timed model.
MaxTimed == 2
MaxClock == 3

TimedWorkloads == {w \in Workloads : Len(w) \in 1..MaxTimed}

\* A request not yet handed to the executor. submit_t and waited are not
\* program state: they are the moment of executor.submit and the time the
\* work item then spent in the executor's queue.
NotHandled ==
    [ph |-> "unsubmitted", submit_t |-> 0, waited |-> 0, start |-> 0,
     start_time |-> 0, latency_s |-> 0]

TimedSubmitted == {i \in DOMAIN handling : handling[i].ph # "unsubmitted"}
TimedQueued == {i \in DOMAIN handling : handling[i].ph = "queued"}
TimedBusy ==
    {i \in DOMAIN handling : handling[i].ph \in {"started", "posting", "returned"}}

\* The dict _handle_request builds, timing fields only.
TimedRecord(req, latency, wall) ==
    [request_id |-> req.request_id, latency_s |-> latency, wall_time_s |-> wall]

\* wall_time_s = end - start, start being read inside _handle_request.
WallTime(end, start) == end - start

InitTiming ==
    /\ clk = 0
    /\ handling = [i \in 1..Len(workload) |-> NotHandled]
    /\ timedResults = <<>>

IdleTiming ==
    /\ clk = 0
    /\ handling = <<>>
    /\ timedResults = <<>>

\* The state of run() when the executor block of a timed run begins.
TimingRun ==
    /\ workload \in TimedWorkloads
    /\ concurrency \in 1..MaxConcurrency
    /\ pc = "timing"
    /\ server = "started"
    /\ submitted = 0
    /\ futures = <<>>
    /\ st = <<>>
    /\ called = {}
    /\ resp = <<>>
    /\ numThreads = 0
    /\ lock = 0
    /\ results = <<>>
    /\ persisted = <<>>

\* executor.submit(_handle_request, req) for the next req.
TimedSubmit ==
    /\ Cardinality(TimedSubmitted) < Len(workload)
    /\ LET i == Cardinality(TimedSubmitted) + 1
       IN  handling' = [handling EXCEPT ![i] =
                           [NotHandled EXCEPT !.ph = "queued", !.submit_t = clk]]
    /\ UNCHANGED <<clk, timedResults>>
    /\ UNCHANGED timeOther

\* A free worker takes the oldest work item: _handle_request builds the
\* prompt and reads start = time.time().
HandlerStart(i) ==
    /\ i \in TimedQueued
    /\ \A j \in TimedQueued : i <= j
    /\ Cardinality(TimedBusy) < concurrency
    /\ handling' = [handling EXCEPT ![i] =
                       [@ EXCEPT !.ph = "started", !.start = clk,
                                 !.waited = clk - handling[i].submit_t, !.submit_t = 0]]
    /\ UNCHANGED <<clk, timedResults>>
    /\ UNCHANGED timeOther

\* self.server.generate: the payload is built and start_time = time.time()
\* is read just before requests.post.
GenerateStart(i) ==
    /\ i \in DOMAIN handling
    /\ handling[i].ph = "started"
    /\ handling' = [handling EXCEPT ![i] =
                       [@ EXCEPT !.ph = "posting", !.start_time = clk]]
    /\ UNCHANGED <<clk, timedResults>>
    /\ UNCHANGED timeOther

\* requests.post returns a good response: end_time = time.time() and
\* latency_s = end_time - start_time.
GenerateReturn(i) ==
    /\ i \in DOMAIN handling
    /\ handling[i].ph = "posting"
    /\ handling' = [handling EXCEPT ![i] =
                       [@ EXCEPT !.ph = "returned",
                                 !.latency_s = clk - handling[i].start_time,
                                 !.start_time = 0]]
    /\ UNCHANGED <<clk, timedResults>>
    /\ UNCHANGED timeOther

\* requests.post or raise_for_status raises: _handle_request ends without a
\* record.
GenerateRaise(i) ==
    /\ i \in DOMAIN handling
    /\ handling[i].ph = "posting"
    /\ handling' = [handling EXCEPT ![i] = [NotHandled EXCEPT !.ph = "exc"]]
    /\ UNCHANGED <<clk, timedResults>>
    /\ UNCHANGED timeOther

\* end = time.time(); the record is built and appended to results.
HandlerEnd(i) ==
    /\ i \in DOMAIN handling
    /\ handling[i].ph = "returned"
    /\ timedResults' =
           Append(timedResults,
                  TimedRecord(workload[i], handling[i].latency_s,
                              WallTime(clk, handling[i].start)))
    /\ handling' = [handling EXCEPT ![i] =
                       [@ EXCEPT !.ph = "ok", !.start = 0, !.latency_s = 0]]
    /\ UNCHANGED clk
    /\ UNCHANGED timeOther

\* Time passes.
ClockTick ==
    /\ clk < MaxClock
    /\ clk' = clk + 1
    /\ UNCHANGED <<handling, timedResults>>
    /\ UNCHANGED timeOther

Init == InitRun /\ IdleGen /\ IdleReduce /\ IdleTiming
Next ==
    \/ ServerStart
    \/ ServerStartFails
    \/ Submit
    \/ SubmitDone
    \/ \E i \in 1..Len(workload) : WorkerTake(i)
    \/ \E i \in 1..Len(workload), lat \in Latencies : BackendReturn(i, lat)
    \/ \E i \in 1..Len(workload) : BackendFail(i)
    \/ \E i \in 1..Len(workload) : AcquireLock(i)
    \/ \E i \in 1..Len(workload) : AppendRelease(i)
    \/ WaitDone
    \/ ServerStop
    \/ Save
    \/ PrintComplete
Spec == Init /\ [][Next]_vars

\* The main thread and every worker thread keep running, and every call of
\* self.server.generate eventually returns or raises. Nothing is assumed
\* about self.server.start().
Fairness ==
    /\ WF_vars(Submit)
    /\ WF_vars(SubmitDone)
    /\ WF_vars(WaitDone)
    /\ WF_vars(ServerStop)
    /\ WF_vars(Save)
    /\ WF_vars(PrintComplete)
    /\ \A i \in 1..MaxRequests :
          /\ WF_vars(WorkerTake(i))
          /\ WF_vars(BackendFail(i) \/ \E lat \in Latencies : BackendReturn(i, lat))
          /\ WF_vars(AcquireLock(i))
          /\ WF_vars(AppendRelease(i))
SpecLive == Init /\ [][Next]_vars /\ Fairness

\* SyntheticWorkload instances sharing the `random` module.
InitG == IdleRun /\ InitGen /\ IdleReduce /\ IdleTiming
NextG ==
    \/ \E k \in Instances, cfg \in Configs : Construct(k, cfg)
    \/ \E k \in Instances : GenNext(k)
    \/ Tick
SpecGen == InitG /\ [][NextG]_vars

\* analyze on a trace.
InitR == IdleRun /\ IdleGen /\ InitReduce /\ IdleTiming
NextR == Analyze
SpecReduce == InitR /\ [][NextR]_vars

InitT == TimingRun /\ IdleGen /\ IdleReduce /\ InitTiming
NextT ==
    \/ TimedSubmit
    \/ \E i \in 1..MaxTimed : HandlerStart(i)
    \/ \E i \in 1..MaxTimed : GenerateStart(i)
    \/ \E i \in 1..MaxTimed : GenerateReturn(i)
    \/ \E i \in 1..MaxTimed : GenerateRaise(i)
    \/ \E i \in 1..MaxTimed : HandlerEnd(i)
    \/ ClockTick
SpecTiming == InitT /\ [][NextT]_vars

(***************************************************************************)
(*                              Claims                                     *)
(***************************************************************************)

\* The backend call of request i returned a response.
Succeeded(i) == resp[i] \in Latencies

\* The entries of a trace that carry request i's request_id.
EntriesOf(tr, i) == {k \in DOMAIN tr : tr[k].request_id = workload[i].request_id}

Finished == pc \in {"joined", "stopped", "saved", "done"}

\* C1 (as claimed): when run() has completed, the number of trace records
\* plus the number of recorded failures equals the number of requests
\* submitted; no request is dropped silently.
C1_NoLoss ==
    pc = "done" =>
        Len(persisted) + Cardinality(RecordedFailures) = submitted

\* C2: the number of backend calls in flight never exceeds the configured
\* concurrency.
C2_BoundedConcurrency == Cardinality(InFlight) <= concurrency

\* C2 witness: the cap is reached while a further request waits in the queue.
C2_Witness ==
    /\ concurrency = 2
    /\ Cardinality(InFlight) = concurrency
    /\ Queued # {}

\* C3: in every state the trace holds exactly one entry for each request whose
\* handler has appended and none for any other; every entry carries the
\* request's own fields; and once all handlers have ended the trace holds
\* exactly one entry per request whose backend call succeeded.
C3_ExactlyOneRecord ==
    /\ \A i \in 1..Len(workload) :
          Cardinality(EntriesOf(results, i)) = IF st[i] = "ok" THEN 1 ELSE 0
    /\ \A k \in DOMAIN results :
          \E i \in 1..submitted :
              /\ Succeeded(i)
              /\ results[k].request_id = workload[i].request_id
              /\ results[k].arrival_time = workload[i].arrival_time
              /\ results[k].prompt_tokens = workload[i].prompt_tokens
              /\ results[k].max_new_tokens = workload[i].max_new_tokens
    /\ Finished =>
          \A i \in 1..Len(workload) :
              Cardinality(EntriesOf(results, i)) = IF Succeeded(i) THEN 1 ELSE 0

\* C3 witness: a finished run whose workers completed out of submission
\* order, with one failed request.
C3_Witness ==
    /\ pc = "done"
    /\ Len(results) = 2
    /\ results[1].request_id > results[2].request_id
    /\ \E i \in 1..submitted : st[i] = "exc"

\* C4: once a backend call has failed the run is not aborted: it can always
\* take a further step until it is done, and when it is done every request of
\* the workload was submitted and handed to the backend, and every request
\* whose own call succeeded has its record in the written trace.
C4_FailureIsolation ==
    (\E i \in 1..submitted : st[i] = "exc") =>
        /\ pc # "aborted"
        /\ pc # "done" => ENABLED Next
        /\ pc = "done" =>
              /\ submitted = Len(workload)
              /\ called = 1..Len(workload)
              /\ \A j \in 1..Len(workload) :
                    Succeeded(j) => Cardinality(EntriesOf(persisted, j)) = 1

\* C4 witness: the first of three requests failed and the run is done with
\* the records of the other two.
C4_Witness ==
    /\ pc = "done"
    /\ Len(workload) = 3
    /\ st[1] = "exc"
    /\ st[2] = "ok"
    /\ st[3] = "ok"

\* C5 (as claimed): two generations from instances built with the same
\* configuration and seed yield identical sequences of
\* (request_id, prompt_tokens, max_new_tokens, arrival_time).
C5_Determinism ==
    \A a, b \in Instances :
        (/\ inst[a].phase = "exhausted"
         /\ inst[b].phase = "exhausted"
         /\ inst[a].cfg = inst[b].cfg)
        => inst[a].out = inst[b].out

\* (request_id, prompt_tokens, max_new_tokens) of each request of a sequence.
Identity(seq) ==
    [i \in DOMAIN seq |->
        <<seq[i].request_id, seq[i].prompt_tokens, seq[i].max_new_tokens>>]

\* C6 (as claimed): the (request_id, prompt_tokens, max_new_tokens) sequence an
\* instance yields depends on its own configuration and seed only, whatever
\* other instances are constructed or drawn from meanwhile.
C6_PrivateState ==
    \A k \in Instances :
        inst[k].phase = "exhausted" =>
            Identity(inst[k].out) = Identity(Alone(inst[k].cfg, 0))

\* C8 (as claimed): an invalid configuration fails at construction, so no
\* instance with an invalid configuration ever exists.
C8_FailFast ==
    \A k \in Instances :
        inst[k].phase # "none" => ~IsInvalid(inst[k].cfg)

\* C7: the run passes the worker pool, stops the backend, writes the trace
\* and prints completion only when every submitted request has finished its
\* handling, and the written trace is the whole trace: nothing is appended
\* after it was persisted.
C7_CompleteAfterAll ==
    /\ Finished =>
          /\ submitted = Len(workload)
          /\ AllFinished
          /\ lock = 0
    /\ pc \in {"saved", "done"} => persisted = results

\* C7 witness: a completed run that persisted two records.
C7_Witness ==
    /\ pc = "done"
    /\ Len(persisted) = 2
    /\ server = "stopped"

\* C9 (as claimed): analyze on an empty trace returns, without raising, a
\* summary with num_requests = 0, undefined percentiles and no throughput.
C9_EmptyTrace ==
    (trace = <<>> /\ rpc # "loaded") =>
        /\ rpc = "returned"
        /\ summary.num_requests = 0
        /\ summary.p50.nan /\ summary.p95.nan /\ summary.p99.nan
        /\ "requests_per_sec" \notin DOMAIN summary
        /\ "tokens_per_sec" \notin DOMAIN summary

\* The trace of one record {arrival_time: 100.0, latency_s: 0.05,
\* max_new_tokens: 50}, analysed.
SingleRecordCase ==
    /\ rpc = "returned"
    /\ trace = <<[arrival_time |-> 100 * MicrosPerSec, latency_s |-> 50000,
                  max_new_tokens |-> 50]>>

\* C10 (as claimed): that trace yields duration_s clamped to the floor and
\* requests_per_sec = 1 / floor.
C10_ClampedToFloor ==
    SingleRecordCase =>
        /\ summary.duration_s = Epsilon
        /\ summary.requests_per_sec = [num |-> MicrosPerSec, den |-> Epsilon]

\* C10 (amended): that trace yields duration_s = 0.05 s, the record's own
\* latency, above the floor and not clamped, and requests_per_sec = 20.
C10_SingleRecord ==
    SingleRecordCase =>
        /\ summary.duration_s = 50000
        /\ summary.duration_s > Epsilon
        /\ summary.requests_per_sec.num = 20 * summary.requests_per_sec.den
        /\ summary.tokens_per_sec.num = 1000 * summary.tokens_per_sec.den

\* C10 witness: the single-record trace was analysed.
C10_Witness == SingleRecordCase

\* C11: for every trace with at least one record the computed duration_s is
\* at least the floor, hence positive, and the two rates are the request
\* count and the token sum divided by it.
C11_PositiveDuration ==
    (rpc = "returned" /\ trace # <<>>) =>
        /\ summary.duration_s >= Epsilon
        /\ summary.duration_s > 0
        /\ summary.requests_per_sec =
              [num |-> Len(trace) * MicrosPerSec, den |-> summary.duration_s]
        /\ summary.tokens_per_sec =
              [num |-> SumTokens(trace) * MicrosPerSec,
               den |-> summary.duration_s]

\* C11 witness: two records sharing one timestamp, both with zero latency.
C11_Witness ==
    /\ rpc = "returned"
    /\ Len(trace) = 2
    /\ trace[1].arrival_time = trace[2].arrival_time
    /\ trace[1].latency_s = 0
    /\ trace[2].latency_s = 0

\* The permutations of 1..n.
Perms(n) == {f \in [1..n -> 1..n] : \A i, j \in 1..n : f[i] = f[j] => i = j}

\* C12: the summary analyze returned for a trace is the summary of every
\* permutation of that trace.
C12_OrderIndependent ==
    rpc = "returned" =>
        \A f \in Perms(Len(trace)) :
            AnalyzeSummary([i \in 1..Len(trace) |-> trace[f[i]]]) = summary

\* C12 witness: a trace whose records are in descending order of latency and
\* of arrival time, as out-of-order completion leaves them.
C12_Witness ==
    /\ rpc = "returned"
    /\ Len(trace) = 2
    /\ trace[1].latency_s > trace[2].latency_s
    /\ trace[1].arrival_time > trace[2].arrival_time

\* The latencies of a trace as the file holds them.
RawLatencies(tr) == [i \in 1..Len(tr) |-> tr[i].latency_s]

\* C16 (as claimed): the reported p50 of an odd-sized trace is its middle
\* order statistic, with no change of value.
C16_MedianExact ==
    (rpc = "returned" /\ Len(trace) % 2 = 1) =>
        summary.p50 =
            Defined(100 * Sort(RawLatencies(trace))[(Len(trace) + 1) \div 2])


\* C14: the request ids one generation yields are 0, 1, 2, ... in yield
\* order: unique, contiguous from 0 and increasing, also when a second
\* produced no request.
C14_ContiguousIds ==
    \A k \in Instances :
        \A i \in 1..Len(inst[k].out) : inst[k].out[i].request_id = i - 1

C14_Witness ==
    \E k \in Instances :
        /\ Len(inst[k].out) >= 2
        /\ inst[k].out[1].arrival_time > inst[k].start_time

\* C15: every arrival time is start_time + t for the one start_time of the
\* generation and a whole second t in [0, duration_s), and arrival times do
\* not decrease in yield order.
C15_ArrivalTimes ==
    \A k \in Instances :
        LET me == inst[k]
        IN  /\ \A i \in 1..Len(me.out) :
                  /\ me.out[i].arrival_time - me.start_time >= 0
                  /\ me.out[i].arrival_time - me.start_time < me.cfg.duration_s
            /\ \A i, j \in 1..Len(me.out) :
                  i <= j => me.out[i].arrival_time <= me.out[j].arrival_time
            /\ (me.phase = "running") =>
                  me.out[Len(me.out)].arrival_time = me.start_time + me.sec

C15_Witness ==
    \E k \in Instances :
        /\ Len(inst[k].out) >= 2
        /\ inst[k].out[1].arrival_time < inst[k].out[Len(inst[k].out)].arrival_time
        /\ now > inst[k].start_time


\* C18: the requests handed to the executor are the generated requests in
\* generation order, each exactly once; the next request can be submitted
\* whatever its arrival_time, and the oldest queued request can start as soon
\* as a worker is idle, whatever its arrival_time.
C18_ConsumptionOrder ==
    (pc # "idle") =>
        /\ Len(futures) = submitted
        /\ futures = [i \in 1..submitted |-> workload[i].request_id]
        /\ \A i, j \in 1..Len(futures) : futures[i] = futures[j] => i = j
        /\ \A i \in 1..Len(workload) : (st[i] = "unsubmitted") <=> (i > submitted)
        /\ (pc \in {"wait", "joined", "stopped", "saved", "done"}) =>
              submitted = Len(workload)
        /\ (pc = "submit" /\ submitted < Len(workload)) => ENABLED Submit
        /\ \A i \in Queued :
              ((\A j \in Queued : i <= j) /\ Cardinality(Busy) < numThreads)
                  => ENABLED WorkerTake(i)

C18_Witness ==
    /\ submitted >= 2
    /\ workload[1].arrival_time < workload[2].arrival_time
    /\ st[1] = "calling"
    /\ st[2] = "calling"

\* C19: a backend call is in flight only while the server is started: none
\* is issued before start() returned, stop() is invoked only when every call
\* has returned or raised, and none is issued after stop().
C19_LifecycleBracket ==
    /\ (InFlight # {}) => server = "started"
    /\ (server \in {"init", "failed"}) => (called = {} /\ submitted = 0)
    /\ (server = "stopped") =>
          /\ InFlight = {}
          /\ Queued = {}
          /\ AllFinished
          /\ \A i \in 1..Len(workload) : ~ ENABLED WorkerTake(i)
    /\ (pc = "joined") => (InFlight = {} /\ Queued = {})

C19_Witness ==
    /\ server = "stopped"
    /\ Cardinality(called) >= 2


\* C17: once the backend is up, if every backend call eventually returns or
\* raises, the run completes for every workload and every concurrency,
\* however many calls raised: the workers drain, the backend is stopped and
\* the trace is written.
C17_RunTerminates == (pc = "submit") ~> (pc = "done")

C17_Witness ==
    /\ pc = "done"
    /\ server = "stopped"
    /\ Len(workload) >= 2
    /\ \A i \in 1..Len(workload) : st[i] = "exc"
    /\ persisted = <<>>


\* C13: in every record, latency_s is the time the backend call took, and
\* wall_time_s covers the handling of the request from the moment it was
\* handed to the executor: wall_time_s >= latency_s and
\* wall_time_s >= (time queued for a worker) + latency_s.
C13_TimingSpans ==
    \A k \in 1..Len(timedResults) :
        LET r == timedResults[k]
            i == r.request_id + 1
        IN  /\ r.latency_s >= 0
            /\ r.wall_time_s >= r.latency_s
            /\ r.wall_time_s >= handling[i].waited + r.latency_s

====
